---------------------------- MODULE Spec2Model ----------------------------
(***************************************************************************)
(* A model of money-utils: the Currency registry (core/Currency.ts) and    *)
(* the Money value type (core/Money.ts).                                   *)
(*                                                                         *)
(* Decimal values (decimal.js) are kept as sign and magnitude, the         *)
(* magnitude counted in base units of 10^-FracDigits, so that negative     *)
(* zero, NaN and the infinities are values of the model.  decimal.js      *)
(* rounds the result of an arithmetic operation to Precision significant   *)
(* digits: plus, minus and times do so here on the amounts that have more, *)
(* and every other value the library rounds is read, within the bounds of  *)
(* the model, only through a truncation or a comparison that the rounding  *)
(* does not change.                                                        *)
(* Strings that the code hands to the Decimal parser are sequences of      *)
(* one-character strings.                                                  *)
(***************************************************************************)
EXTENDS Integers, Sequences, FiniteSets, TLC

VARIABLES currencies, monies, last, instance, accessors

\* the static fields of the Currency class: whether the singleton exists, and
\* the convenience accessors resolved so far
statics == <<instance, accessors>>

vars == <<currencies, monies, last, instance, accessors>>

-----------------------------------------------------------------------------
(* Bounds of the model *)

\* fractional digits a Decimal of the model carries
FracDigits == 3

\* largest magnitude, in hundredths, of an amount kept among the live instances
MaxCents == 1

\* largest magnitude, in thousandths, of an amount handed to allocate
MaxMills == 30

\* longest ratio list handed to allocate, and the largest ratio in it
MaxRatios == 3

MaxRatio == 2

\* largest count of 10^Precision base units in an amount kept among the live
\* instances
MaxWide == 1

-----------------------------------------------------------------------------
(* Arithmetic helpers *)

RECURSIVE Pow10(_)
Pow10(n) == IF n <= 0 THEN 1 ELSE 10 * Pow10(n - 1)

Scale == Pow10(FracDigits)

Abs(i) == IF i < 0 THEN -i ELSE i

RECURSIVE SumSeq(_)
SumSeq(s) == IF s = <<>> THEN 0 ELSE Head(s) + SumSeq(Tail(s))

\* a digit string padded with zeros on the left
RECURSIVE PadTo(_, _)
PadTo(chars, width) ==
  IF Len(chars) >= width THEN chars ELSE PadTo(<<"0">> \o chars, width)

\* the number of decimal digits of a whole number
RECURSIVE DigitCount(_)
DigitCount(n) == IF n < 10 THEN 1 ELSE 1 + DigitCount(n \div 10)

RECURSIVE SeqsUpTo(_, _)
SeqsUpTo(S, n) ==
  IF n = 0 THEN {<<>>}
  ELSE LET shorter == SeqsUpTo(S, n - 1)
       IN  shorter \cup {Append(s, x) : s \in {t \in shorter : Len(t) = n - 1}, x \in S}

-----------------------------------------------------------------------------
(* Decimal: the values of decimal.js *)

(* A finite Decimal is a sign and a magnitude of hi * 10^Precision + mag base *)
(* units of 10^-FracDigits. mag stays far below 10^Precision, so a value    *)
(* with hi > 0 has more than Precision significant digits unless the low    *)
(* digits of mag are zero. The constructor, toString, plus, minus, times    *)
(* and cmp are modelled for such values; dividedBy and toDecimalPlaces are  *)
(* applied to values with hi = 0 only.                                      *)

\* the significant digits decimal.js keeps in the result of an arithmetic
\* operation (its default; the library is never reconfigured)
Precision == 20

Wide(neg, hi, mag) == [k |-> "fin", neg |-> neg, hi |-> hi, mag |-> mag]

Fin(neg, mag) == Wide(neg, 0, mag)

NaN == [k |-> "nan", neg |-> FALSE, hi |-> 0, mag |-> 0]

Inf(neg) == [k |-> "inf", neg |-> neg, hi |-> 0, mag |-> 0]

\* a signed count of base units as a Decimal (a zero result is +0)
OfInt(i) == Fin(i < 0, Abs(i))

\* the signed count of base units of a finite Decimal
ToInt(x) == IF x.neg THEN -x.mag ELSE x.mag

\* the signed count of 10^Precision base units of a finite Decimal
ToHi(x) == IF x.neg THEN -x.hi ELSE x.hi

\* decimal.js finalise: the result of an arithmetic operation is rounded to
\* Precision significant digits, half up (a value with hi = 0 has fewer)
Finalise(x) ==
  IF x.k # "fin" \/ x.hi = 0 THEN x
  ELSE LET unit == Pow10(DigitCount(x.hi))
       IN  [x EXCEPT !.mag = ((x.mag + unit \div 2) \div unit) * unit]

isFinite(x) == x.k = "fin"

DecIsZero(x) == x.k = "fin" /\ x.hi = 0 /\ x.mag = 0

\* Decimal.isPositive / isNegative read the sign alone (NaN has none)
DecIsPositive(x) == x.k # "nan" /\ ~x.neg

DecIsNegative(x) == x.k # "nan" /\ x.neg


\* x.times(y): the product of two Decimals (exact for finite operands)
DecTimes(x, y) ==
  IF x.k = "nan" \/ y.k = "nan" THEN NaN
  ELSE IF (x.k = "inf" /\ DecIsZero(y)) \/ (y.k = "inf" /\ DecIsZero(x)) THEN NaN
  ELSE IF x.k = "inf" \/ y.k = "inf" THEN Inf(x.neg # y.neg)
  ELSE Finalise(Wide(x.neg # y.neg, (x.hi * y.mag + y.hi * x.mag) \div Scale,
                      (x.mag * y.mag) \div Scale))

\* the product of two finite Decimals has no digit below a base unit, and
\* none at 10^(2 * Precision) base units or above
TimesExact(x, y) ==
  (x.k = "fin" /\ y.k = "fin") =>
    /\ (x.mag * y.mag) % Scale = 0
    /\ (x.hi * y.mag + y.hi * x.mag) % Scale = 0
    /\ x.hi = 0 \/ y.hi = 0

\* x.dividedBy(y): NaN for 0/0 and Infinity/Infinity, an infinity for x/0
DecDividedBy(x, y) ==
  IF x.k = "nan" \/ y.k = "nan" THEN NaN
  ELSE IF (x.k = "inf" /\ y.k = "inf") \/ (DecIsZero(x) /\ DecIsZero(y)) THEN NaN
  ELSE IF x.k = "inf" \/ DecIsZero(y) THEN Inf(x.neg # y.neg)
  ELSE IF y.k = "inf" THEN Fin(x.neg # y.neg, 0)
  ELSE Fin(x.neg # y.neg, (x.mag * Scale) \div y.mag)

\* the quotient of two finite Decimals has no digit below a base unit
DividedByExact(x, y) ==
  /\ (x.k = "fin" /\ y.k = "fin" /\ y.mag # 0) => (x.mag * Scale) % y.mag = 0
  /\ x.hi = 0 /\ y.hi = 0

\* the sum of two finite Decimals is a value of the model: its two parts do
\* not have opposite signs
PlusInModel(x, y) ==
  (x.k = "fin" /\ y.k = "fin") =>
    /\ ToHi(x) + ToHi(y) > 0 => ToInt(x) + ToInt(y) >= 0
    /\ ToHi(x) + ToHi(y) < 0 => ToInt(x) + ToInt(y) <= 0

\* x.plus(y) of finite Decimals; a zero sum of opposite signs is +0
DecPlus(x, y) ==
  IF x.k = "nan" \/ y.k = "nan" THEN NaN
  ELSE IF x.k = "inf" /\ y.k = "inf" THEN (IF x.neg = y.neg THEN x ELSE NaN)
  ELSE IF x.k = "inf" THEN x
  ELSE IF y.k = "inf" THEN y
  ELSE IF ToHi(x) + ToHi(y) = 0
       THEN (IF x.neg = y.neg THEN Fin(x.neg, x.mag + y.mag)
             ELSE OfInt(ToInt(x) + ToInt(y)))
  ELSE IF ToHi(x) + ToHi(y) > 0
       THEN Finalise(Wide(FALSE, ToHi(x) + ToHi(y), ToInt(x) + ToInt(y)))
  ELSE Finalise(Wide(TRUE, -(ToHi(x) + ToHi(y)), -(ToInt(x) + ToInt(y))))

\* -y
DecNegated(y) == [y EXCEPT !.neg = (y.k # "nan" /\ ~y.neg)]

\* x.minus(y) is x.plus(-y)
DecMinus(x, y) == DecPlus(x, DecNegated(y))

\* x.cmp(y) on finite Decimals: -1, 0 or 1 (the two zeros are equal)
DecCmp(x, y) ==
  IF ToHi(x) < ToHi(y) THEN -1
  ELSE IF ToHi(x) > ToHi(y) THEN 1
  ELSE IF ToInt(x) < ToInt(y) THEN -1 ELSE IF ToInt(x) > ToInt(y) THEN 1 ELSE 0

-----------------------------------------------------------------------------
(* Rounding: Decimal.toDecimalPlaces(dp, rm) under the nine modes *)

RoundingModes ==
  {"ROUND_UP", "ROUND_DOWN", "ROUND_CEIL", "ROUND_FLOOR", "ROUND_HALF_UP",
   "ROUND_HALF_DOWN", "ROUND_HALF_EVEN", "ROUND_HALF_CEIL", "ROUND_HALF_FLOOR"}

\* whether a magnitude of q units and r base units (0 < r < unit) goes to q + 1
RoundsAway(rm, neg, q, r, unit) ==
  CASE rm = "ROUND_UP"         -> TRUE
    [] rm = "ROUND_DOWN"       -> FALSE
    [] rm = "ROUND_CEIL"       -> ~neg
    [] rm = "ROUND_FLOOR"      -> neg
    [] rm = "ROUND_HALF_UP"    -> 2 * r >= unit
    [] rm = "ROUND_HALF_DOWN"  -> 2 * r > unit
    [] rm = "ROUND_HALF_EVEN"  -> 2 * r > unit \/ (2 * r = unit /\ q % 2 = 1)
    [] rm = "ROUND_HALF_CEIL"  -> 2 * r > unit \/ (2 * r = unit /\ ~neg)
    [] rm = "ROUND_HALF_FLOOR" -> 2 * r > unit \/ (2 * r = unit /\ neg)

toDecimalPlaces(x, dp, rm) ==
  IF x.k # "fin" \/ dp >= FracDigits THEN x
  ELSE LET unit == Pow10(FracDigits - dp)
           q    == x.mag \div unit
           r    == x.mag % unit
       IN  IF r = 0 THEN x
           ELSE IF RoundsAway(rm, x.neg, q, r, unit) THEN Fin(x.neg, (q + 1) * unit)
           ELSE Fin(x.neg, q * unit)

-----------------------------------------------------------------------------
(* Strings of the Decimal parser: Decimal.toString and new Decimal(string) *)

DigitChars == <<"0", "1", "2", "3", "4", "5", "6", "7", "8", "9">>

DigitValues ==
  ("0" :> 0) @@ ("1" :> 1) @@ ("2" :> 2) @@ ("3" :> 3) @@ ("4" :> 4) @@
  ("5" :> 5) @@ ("6" :> 6) @@ ("7" :> 7) @@ ("8" :> 8) @@ ("9" :> 9)

IsDigit(c) == c \in DOMAIN DigitValues

DigitVal(c) == DigitValues[c]

NaNString == <<"N", "a", "N">>

InfinityString == <<"I", "n", "f", "i", "n", "i", "t", "y">>

RECURSIVE DigitsOf(_)
DigitsOf(n) ==
  IF n < 10 THEN <<DigitChars[n + 1]>>
  ELSE Append(DigitsOf(n \div 10), DigitChars[(n % 10) + 1])

\* the FracDigits digits of a fraction f < Scale, trailing zeros dropped
RECURSIVE FracChars(_, _)
FracChars(f, width) ==
  IF f = 0 THEN <<>>
  ELSE <<DigitChars[(f \div Pow10(width - 1)) + 1]>>
         \o FracChars(f % Pow10(width - 1), width - 1)

\* Decimal.toString(): negative zero prints as "0"
DecToString(x) ==
  IF x.k = "nan" THEN NaNString
  ELSE IF x.k = "inf" THEN (IF x.neg THEN <<"-">> ELSE <<>>) \o InfinityString
  ELSE (IF x.neg /\ ~DecIsZero(x) THEN <<"-">> ELSE <<>>)
         \o (IF x.hi = 0 THEN DigitsOf(x.mag \div Scale)
             ELSE DigitsOf(x.hi) \o PadTo(DigitsOf(x.mag \div Scale), Precision - FracDigits))
         \o (IF x.mag % Scale = 0 THEN <<>>
             ELSE <<".">> \o FracChars(x.mag % Scale, FracDigits))

AllDigits(s) == \A i \in 1..Len(s) : IsDigit(s[i])

\* the whole number the first n digits of s write
RECURSIVE DigitsValTo(_, _)
DigitsValTo(s, n) ==
  IF n = 0 THEN 0 ELSE 10 * DigitsValTo(s, n - 1) + DigitVal(s[n])

DigitsVal(s) == DigitsValTo(s, Len(s))

\* the index of the first "." of s from index i on, or 0
RECURSIVE DotFrom(_, _)
DotFrom(s, i) ==
  IF i > Len(s) THEN 0 ELSE IF s[i] = "." THEN i ELSE DotFrom(s, i + 1)

DotAt(s) == DotFrom(s, 1)

\* the parts of a string around its first "."
IntegerPart(s, d) == IF d = 0 THEN s ELSE SubSeq(s, 1, d - 1)

FractionPart(s, d) == IF d = 0 THEN <<>> ELSE SubSeq(s, d + 1, Len(s))

\* decimal.js isDecimal, without an exponent: digits, digits "." digits, "." digits
IsDecimalBody(s) ==
  LET d  == DotAt(s)
      ip == IntegerPart(s, d)
      fp == FractionPart(s, d)
  IN  /\ AllDigits(ip)
      /\ AllDigits(fp)
      /\ (ip # <<>> \/ fp # <<>>)

\* the integer digits of a string that count 10^Precision base units, and
\* those below them
HighDigits(ip) ==
  IF Len(ip) <= Precision - FracDigits THEN <<>>
  ELSE SubSeq(ip, 1, Len(ip) - (Precision - FracDigits))

LowDigits(ip) ==
  IF Len(ip) <= Precision - FracDigits THEN ip
  ELSE SubSeq(ip, Len(ip) - (Precision - FracDigits) + 1, Len(ip))

\* the count of 10^Precision base units of a string IsDecimalBody accepts
DecimalBodyHi(s) == DigitsVal(HighDigits(IntegerPart(s, DotAt(s))))

\* the magnitude below them, in base units
\* (digits below a base unit are taken to be absent from the inputs)
DecimalBodyMag(s) ==
  LET d    == DotAt(s)
      ip   == LowDigits(IntegerPart(s, d))
      fp   == FractionPart(s, d)
      kept == IF Len(fp) <= FracDigits THEN fp ELSE SubSeq(fp, 1, FracDigits)
  IN  DigitsVal(ip) * Scale + DigitsVal(kept) * Pow10(FracDigits - Len(kept))

\* a string less its sign
Unsigned(s) == IF s # <<>> /\ Head(s) \in {"-", "+"} THEN Tail(s) ELSE s

\* new Decimal(string): a sign, then a decimal, "Infinity" or "NaN";
\* anything else makes the constructor throw
DecimalThrows(s) ==
  LET body == Unsigned(s)
  IN  ~(IsDecimalBody(body) \/ body = InfinityString \/ body = NaNString)

DecimalOfString(s) ==
  LET neg  == s # <<>> /\ Head(s) = "-"
      body == Unsigned(s)
  IN  IF body = NaNString THEN NaN
      ELSE IF body = InfinityString THEN Inf(neg)
      ELSE Wide(neg, DecimalBodyHi(body), DecimalBodyMag(body))

-----------------------------------------------------------------------------
(* Currency configurations (currencies/fiat.ts, currencies/crypto.ts) *)

\* the symbols of the euro, the yen, the pound, bitcoin and ether are written
\* with the letters E, Y, L, B and X
DEFAULT_DECIMAL_PLACES == 2

DEFAULT_MINOR_UNITS == <<"1", "0", "0">>

FiatConfig(name, code, symbol) ==
  [name |-> name, code |-> code, symbol |-> symbol, symbolPosition |-> "prefix",
   decimalSeparator |-> ".", decimals |-> DEFAULT_DECIMAL_PLACES,
   minorUnits |-> DEFAULT_MINOR_UNITS, thousandsSeparator |-> ",", isCrypto |-> FALSE]

USD_CONFIG == FiatConfig("United States Dollar", "USD", "$")

EUR_CONFIG == FiatConfig("Euro", "EUR", "E")

JPY_CONFIG == FiatConfig("Japanese Yen", "JPY", "Y")

GBP_CONFIG == FiatConfig("British Pound", "GBP", "L")

BTC_CONFIG ==
  [name |-> "Bitcoin", code |-> "BTC", symbol |-> "B", symbolPosition |-> "prefix",
   decimalSeparator |-> ".", decimals |-> 8,
   minorUnits |-> <<"1", "0", "0", "0", "0", "0", "0", "0", "0">>,
   thousandsSeparator |-> ",", isCrypto |-> TRUE]

ETH_CONFIG ==
  [name |-> "Ethereum", code |-> "ETH", symbol |-> "X", symbolPosition |-> "prefix",
   decimalSeparator |-> ".", decimals |-> 18,
   minorUnits |-> <<"1", "0", "0", "0", "0", "0", "0", "0", "0", "0",
                    "0", "0", "0", "0", "0", "0", "0", "0", "0">>,
   thousandsSeparator |-> ",", isCrypto |-> TRUE]

DEFAULT_CURRENCIES ==
  <<USD_CONFIG, EUR_CONFIG, GBP_CONFIG, JPY_CONFIG, BTC_CONFIG, ETH_CONFIG>>

(* Configurations a caller registers: a suffix currency as in the tests, a  *)
(* second configuration under the code USD, and one that validation rejects *)

TST_CONFIG ==
  [name |-> "Test Currency", code |-> "TST", symbol |-> "T", symbolPosition |-> "suffix",
   decimalSeparator |-> ".", decimals |-> 2, minorUnits |-> <<"1", "0", "0">>,
   thousandsSeparator |-> ",", isCrypto |-> FALSE]

USD_CUSTOM ==
  [name |-> "Custom Dollar", code |-> "USD", symbol |-> "U", symbolPosition |-> "suffix",
   decimalSeparator |-> ",", decimals |-> 1, minorUnits |-> <<"1", "0">>,
   thousandsSeparator |-> ".", isCrypto |-> FALSE]

NO_SYMBOL_CONFIG == [TST_CONFIG EXCEPT !.code = "BAD", !.symbol = ""]

NO_CODE_CONFIG == [TST_CONFIG EXCEPT !.code = ""]

NO_NAME_CONFIG == [TST_CONFIG EXCEPT !.name = ""]

-----------------------------------------------------------------------------
(* The registry: Currency._currencies, a Map from code to configuration *)

\* Map.set keeping the value of a key that is already present
MapSet_KeepExisting(map, key, value) ==
  [c \in DOMAIN map \cup {key} |-> IF c \in DOMAIN map THEN map[c] ELSE value]

MapSet(map, key, value) ==
  [c \in DOMAIN map \cup {key} |-> IF c = key THEN value ELSE map[c]]

\* Map.delete emptying the map when the key is present
MapDelete_All(map, key) == IF key \in DOMAIN map THEN [c \in {} |-> map[key]] ELSE map

MapDelete(map, key) == [c \in DOMAIN map \ {key} |-> map[c]]

EmptyMap == [c \in {} |-> USD_CONFIG]

\* validateCurrencyConfig testing the code alone
validateCurrencyConfig_CodeOnly(config) == config.code = ""

\* Currency.validateCurrencyConfig: TRUE when it throws
validateCurrencyConfig(config) ==
  config.code = "" \/ config.symbol = "" \/ config.name = ""

\* Currency.registerCurrency over a list: each element is validated and set in
\* turn, so an invalid element stops the loop with the earlier ones stored
RECURSIVE registerCurrency(_, _)
registerCurrency(map, list) ==
  IF list = <<>> THEN [map |-> map, error |-> "none"]
  ELSE IF validateCurrencyConfig(Head(list))
       THEN [map |-> map, error |-> "InvalidCurrencyConfig"]
       ELSE registerCurrency(MapSet(map, Head(list).code, Head(list)), Tail(list))

RECURSIVE unregisterCurrency(_, _)
unregisterCurrency(map, list) ==
  IF list = <<>> THEN map
  ELSE unregisterCurrency(MapDelete(map, Head(list).code), Tail(list))

\* initializeCurrencies without the clear
initializeCurrencies_NoClear(list, given) ==
  registerCurrency(currencies, IF given THEN list ELSE DEFAULT_CURRENCIES)

\* Currency.initializeCurrencies: clear, then register the list or the defaults
initializeCurrencies(list, given) ==
  registerCurrency(EmptyMap, IF given THEN list ELSE DEFAULT_CURRENCIES)

\* the Map the private constructor builds from DEFAULT_CURRENCIES
RECURSIVE MapOfList(_)
MapOfList(list) ==
  IF list = <<>> THEN EmptyMap
  ELSE MapSet(MapOfList(SubSeq(list, 1, Len(list) - 1)), list[Len(list)].code, list[Len(list)])

\* Currency.getCurrency: the configuration, or undefined
HasCurrency(map, code) == code \in DOMAIN map

\* getInstance building the singleton without the defaults
getInstance_Unseeded(exists, map) == IF ~exists THEN EmptyMap ELSE map

\* Currency.getInstance: the map of the singleton, which is created from
\* DEFAULT_CURRENCIES when Currency.instance is null
getInstance(exists, map) == IF ~exists THEN MapOfList(DEFAULT_CURRENCIES) ELSE map

\* Currency.getCurrency as a caller sees it: <<config>>, or <<>> for undefined
getCurrency(exists, map, code) ==
  IF HasCurrency(getInstance(exists, map), code)
  THEN <<getInstance(exists, map)[code]>> ELSE <<>>

\* the codes of the static accessors USD, EUR, GBP, JPY, BTC and ETH, in the
\* order their initializers run when the class is loaded
AccessorCodes == <<"USD", "EUR", "GBP", "JPY", "BTC", "ETH">>

\* the accessors once the class is loaded
LoadedAccessors ==
  [i \in 1..Len(AccessorCodes) |->
     getCurrency(TRUE, MapOfList(DEFAULT_CURRENCIES), AccessorCodes[i])]

-----------------------------------------------------------------------------
(* Money: construction *)

\* the value handed to the constructor: a string, or a number (held as the
\* Decimal it converts to)
StrValue(chars) == [t |-> "str", s |-> chars, d |-> NaN]

NumValue(dec) == [t |-> "num", s |-> <<>>, d |-> dec]

\* new Decimal(value)
DecimalOf(value) == IF value.t = "str" THEN DecimalOfString(value.s) ELSE value.d

\* validateAmount without the finiteness test
validateAmount_ParseOnly(value) == value.t = "str" /\ DecimalThrows(value.s)

\* Money.validateAmount: TRUE when it throws INVALID_AMOUNT
validateAmount(value) ==
  \/ value.t = "str" /\ DecimalThrows(value.s)
  \/ ~isFinite(DecimalOf(value))

Opt(options, field, default) ==
  IF field \in DOMAIN options THEN options[field] ELSE default

NoOptions == [o \in {} |-> 0]

\* the outcome of an operation: an error name, or "none" and the values returned
Failed(error) == [error |-> error, result |-> <<>>]

Returned(result) == [error |-> "none", result |-> result]

\* getCurrencyConfig falling back to the US dollar for an unknown code
getCurrencyConfig_Default(map, code) ==
  Returned(<<IF HasCurrency(map, code) THEN map[code] ELSE USD_CONFIG>>)

\* Money.getCurrencyConfig: the registry's configuration of the code
getCurrencyConfig(map, code) ==
  IF ~HasCurrency(map, code) THEN Failed("CurrencyNotFound")
  ELSE Returned(<<map[code]>>)

\* the constructor with ROUND_HALF_UP for its default rounding mode
Instance_HalfUpDefault(value, config, options) ==
  [amount          |-> DecimalOf(value),
   currencyConfig  |-> config,
   symbol          |-> Opt(options, "symbol", config.symbol),
   decimals        |-> Opt(options, "decimals", config.decimals),
   displayDecimals |-> Opt(options, "displayDecimals", config.decimals),
   roundingMode    |-> Opt(options, "roundingMode", "ROUND_HALF_UP")]

\* the fields the constructor fills in from the value, the configuration and
\* the options
Instance(value, config, options) ==
  [amount          |-> DecimalOf(value),
   currencyConfig  |-> config,
   symbol          |-> Opt(options, "symbol", config.symbol),
   decimals        |-> Opt(options, "decimals", config.decimals),
   displayDecimals |-> Opt(options, "displayDecimals", config.decimals),
   roundingMode    |-> Opt(options, "roundingMode", "ROUND_HALF_EVEN")]

\* the constructor looking the code up before it validates the value
NewMoney_LookupFirst(map, value, currency, options) ==
  IF getCurrencyConfig(map, currency).error # "none" THEN Failed("CurrencyNotFound")
  ELSE IF validateAmount(value) THEN Failed("InvalidAmount")
  ELSE Returned(<<Instance(value, getCurrencyConfig(map, currency).result[1], options)>>)

\* new Money(value, currency, options) against the registry `map`
NewMoney(map, value, currency, options) ==
  IF validateAmount(value) THEN Failed("InvalidAmount")
  ELSE IF getCurrencyConfig(map, currency).error # "none" THEN Failed("CurrencyNotFound")
  ELSE Returned(<<Instance(value, getCurrencyConfig(map, currency).result[1], options)>>)

\* the options every derived instance is built with
OwnOptions(m) ==
  [symbol |-> m.symbol, decimals |-> m.decimals,
   displayDecimals |-> m.displayDecimals, roundingMode |-> m.roundingMode]

\* Money.cloneWithNewAmount: a new Money from amount.toString() and the code
cloneWithNewAmount(map, m, amount) ==
  NewMoney(map, StrValue(DecToString(amount)), m.currencyConfig.code, OwnOptions(m))

\* Money.zero
zero(map, currency, options) == NewMoney(map, StrValue(<<"0">>), currency, options)

\* Money.from
from(map, value, currency, options) == NewMoney(map, value, currency, options)

\* assertSameCurrency comparing the precisions in place of the codes
assertSameCurrency_ByDecimals(m, other) == m.decimals # other.decimals

\* Money.assertSameCurrency: TRUE when it throws
assertSameCurrency(m, other) == m.currencyConfig.code # other.currencyConfig.code

-----------------------------------------------------------------------------
(* Money: arithmetic, comparison, rounding, conversion *)

add(map, m, other) ==
  IF assertSameCurrency(m, other) THEN Failed("CurrencyMismatch")
  ELSE cloneWithNewAmount(map, m, DecPlus(m.amount, other.amount))

subtract(map, m, other) ==
  IF assertSameCurrency(m, other) THEN Failed("CurrencyMismatch")
  ELSE cloneWithNewAmount(map, m, DecMinus(m.amount, other.amount))

\* factor and divisor are numbers, held as the Decimals they convert to
multiply(map, m, factor) == cloneWithNewAmount(map, m, DecTimes(m.amount, factor))

divide(map, m, divisor) ==
  IF DecIsZero(divisor) THEN Failed("DivisionByZero")
  ELSE cloneWithNewAmount(map, m, DecDividedBy(m.amount, divisor))

\* round rounding half up whatever the instance's rounding mode
round_HalfUp(map, m, decimals, given) ==
  LET precision == IF given THEN decimals ELSE m.decimals
  IN  cloneWithNewAmount(map, m, toDecimalPlaces(m.amount, precision, "ROUND_HALF_UP"))

\* round(decimals?): `given` tells whether the argument was passed
round(map, m, decimals, given) ==
  LET precision == IF given THEN decimals ELSE m.decimals
  IN  cloneWithNewAmount(map, m, toDecimalPlaces(m.amount, precision, m.roundingMode))

isZero(m) == DecIsZero(m.amount)

isPositive(m) == DecIsPositive(m.amount)

isNegative(m) == DecIsNegative(m.amount)

\* convertTo refusing a zero rate alone
convertTo_ZeroRateOnly(map, m, targetMoney) ==
  IF isZero(targetMoney) THEN Failed("InvalidExchangeRate")
  ELSE NewMoney(map, StrValue(DecToString(DecTimes(m.amount, targetMoney.amount))),
                targetMoney.currencyConfig.code,
                [decimals |-> targetMoney.decimals,
                 displayDecimals |-> targetMoney.displayDecimals,
                 roundingMode |-> targetMoney.roundingMode])

convertTo(map, m, targetMoney) ==
  IF isNegative(targetMoney) \/ isZero(targetMoney) THEN Failed("InvalidExchangeRate")
  ELSE NewMoney(map, StrValue(DecToString(DecTimes(m.amount, targetMoney.amount))),
                targetMoney.currencyConfig.code,
                [decimals |-> targetMoney.decimals,
                 displayDecimals |-> targetMoney.displayDecimals,
                 roundingMode |-> targetMoney.roundingMode])

equals(m, other) ==
  IF assertSameCurrency(m, other) THEN Failed("CurrencyMismatch")
  ELSE Returned(<<DecCmp(m.amount, other.amount) = 0>>)

greaterThan(m, other) ==
  IF assertSameCurrency(m, other) THEN Failed("CurrencyMismatch")
  ELSE Returned(<<DecCmp(m.amount, other.amount) > 0>>)

lessThan(m, other) ==
  IF assertSameCurrency(m, other) THEN Failed("CurrencyMismatch")
  ELSE Returned(<<DecCmp(m.amount, other.amount) < 0>>)

greaterThanOrEqual(m, other) ==
  IF assertSameCurrency(m, other) THEN Failed("CurrencyMismatch")
  ELSE Returned(<<DecCmp(m.amount, other.amount) >= 0>>)

lessThanOrEqual(m, other) ==
  IF assertSameCurrency(m, other) THEN Failed("CurrencyMismatch")
  ELSE Returned(<<DecCmp(m.amount, other.amount) <= 0>>)

compare(m, other) ==
  IF assertSameCurrency(m, other) THEN Failed("CurrencyMismatch")
  ELSE Returned(<<[equal       |-> equals(m, other).result[1],
                   greaterThan |-> greaterThan(m, other).result[1],
                   lessThan    |-> lessThan(m, other).result[1]]>>)

-----------------------------------------------------------------------------
(* Money: the calls that read an instance: value, the formatting methods,   *)
(* toJSON. They are modelled for amounts with hi = 0.                       *)

\* Decimal.abs
DecAbs(x) == [x EXCEPT !.neg = FALSE]

\* the fractional digits of toFixed(dp): those of the value, cut or padded with
\* zeros to dp digits
RECURSIVE FixedFraction(_, _)
FixedFraction(chars, dp) ==
  IF dp = 0 THEN <<>>
  ELSE IF chars = <<>> THEN <<"0">> \o FixedFraction(chars, dp - 1)
  ELSE <<Head(chars)>> \o FixedFraction(Tail(chars), dp - 1)

\* Decimal.toFixed(dp) of a finite value: rounded to dp places under
\* Decimal.rounding, which is ROUND_HALF_UP, and written with dp digits after
\* the point; a zero is written without a sign
toFixed(x, dp) ==
  LET r == toDecimalPlaces(x, dp, "ROUND_HALF_UP")
  IN  (IF r.neg /\ r.mag # 0 THEN <<"-">> ELSE <<>>)
        \o DigitsOf(r.mag \div Scale)
        \o (IF dp = 0 THEN <<>>
            ELSE <<".">> \o FixedFraction(PadTo(DigitsOf(r.mag % Scale), FracDigits), dp))

\* parts[0].replace(/\B(?=(\d{3})+(?!\d))/g, separator): the separator before
\* every group of three digits counted from the right
RECURSIVE GroupThousands(_, _)
GroupThousands(digits, separator) ==
  IF Len(digits) <= 3 THEN digits
  ELSE GroupThousands(SubSeq(digits, 1, Len(digits) - 3), separator)
         \o <<separator>> \o SubSeq(digits, Len(digits) - 2, Len(digits))

\* Money.formatValue: the absolute value rounded to displayDecimals under the
\* instance's rounding mode, with the configuration's separators
formatValue(m) ==
  LET roundedAmount == DecAbs(toDecimalPlaces(m.amount, m.displayDecimals, m.roundingMode))
      fixed         == toFixed(roundedAmount, m.displayDecimals)
      d             == DotAt(fixed)
      integerPart   == GroupThousands(IntegerPart(fixed, d), m.currencyConfig.thousandsSeparator)
      decimalPart   == FractionPart(fixed, d)
  IN  IF decimalPart # <<>>
      THEN integerPart \o <<m.currencyConfig.decimalSeparator>> \o decimalPart
      ELSE integerPart

\* formatNumberWithSign taking the sign from a comparison with zero
formatNumberWithSign_ByComparison(m, value) ==
  IF DecCmp(m.amount, Fin(FALSE, 0)) >= 0 THEN value ELSE <<"-">> \o value

\* Money.formatNumberWithSign
formatNumberWithSign(m, value) == IF isPositive(m) THEN value ELSE <<"-">> \o value

\* Money.value (`value` names an argument of the constructor here)
valueString(m) == DecToString(m.amount)

\* Money.formattedValue
formattedValue(m) == formatNumberWithSign(m, formatValue(m))

\* formattedValueWithSymbol with the sign next to the digits
formattedValueWithSymbol_SignInside(m) ==
  IF m.currencyConfig.symbolPosition = "prefix"
  THEN <<m.symbol>> \o formatNumberWithSign(m, formatValue(m))
  ELSE formatNumberWithSign(m, formatValue(m)) \o <<m.symbol>>

\* Money.formattedValueWithSymbol
formattedValueWithSymbol(m) ==
  IF m.currencyConfig.symbolPosition = "prefix"
  THEN formatNumberWithSign(m, <<m.symbol>> \o formatValue(m))
  ELSE formatNumberWithSign(m, formatValue(m) \o <<m.symbol>>)

\* Money.toString
toString(m) == formattedValueWithSymbol(m)

\* Money.toJSON
toJSON(m) ==
  [currency        |-> m.currencyConfig.code,
   symbol          |-> m.symbol,
   decimals        |-> m.decimals,
   displayDecimals |-> m.displayDecimals,
   value           |-> valueString(m),
   prettyValue     |-> formattedValueWithSymbol(m)]

\* Money.SCALES, each value written as its power of ten
SCALES ==
  <<[exponent |-> 12, symbol |-> "T"], [exponent |-> 9, symbol |-> "B"],
    [exponent |-> 6, symbol |-> "M"], [exponent |-> 3, symbol |-> "K"]>>

\* x.greaterThanOrEqualTo(10^exponent) for x >= 0: the whole part of x has
\* more than `exponent` digits
AtLeastPow10(x, exponent) == DigitCount(x.mag \div Scale) > exponent

\* SCALES.find: the index of the first scale the value reaches, or 0
RECURSIVE FindScale(_, _)
FindScale(x, i) ==
  IF i > Len(SCALES) THEN 0
  ELSE IF AtLeastPow10(x, SCALES[i].exponent) THEN i
  ELSE FindScale(x, i + 1)

\* x.dividedBy(10^exponent).toDecimalPlaces(dp) for x >= 0: the quotient,
\* which is exact, rounded to dp places under Decimal.rounding, ROUND_HALF_UP
ScaledToDecimalPlaces(x, exponent, dp) ==
  IF dp >= FracDigits + exponent THEN Fin(FALSE, x.mag \div Pow10(exponent))
  ELSE LET unit == Pow10(FracDigits + exponent - dp)
           q    == x.mag \div unit
           r    == x.mag % unit
       IN  Fin(FALSE, (IF 2 * r >= unit THEN q + 1 ELSE q) * Pow10(FracDigits - dp))

\* Money.formatWithScale
formatWithScale(m, x, maxDecimals) ==
  LET roundedValue == toDecimalPlaces(x, maxDecimals, m.roundingMode)
      scale        == FindScale(roundedValue, 1)
  IN  IF scale = 0
      THEN DecToString(toDecimalPlaces(roundedValue, m.displayDecimals, "ROUND_HALF_UP"))
      ELSE DecToString(ScaledToDecimalPlaces(roundedValue, SCALES[scale].exponent,
                                             maxDecimals))
             \o <<SCALES[scale].symbol>>

\* Money.applyFormatting
applyFormatting(m, chars, withSymbol) ==
  IF ~withSymbol THEN (IF isNegative(m) THEN <<"-">> \o chars ELSE chars)
  ELSE formatNumberWithSign(m, IF m.currencyConfig.symbolPosition = "prefix"
                                THEN <<m.symbol>> \o chars
                                ELSE chars \o <<m.symbol>>)

\* Money.abbreviatedValue
abbreviatedValue(m, maxDecimals, withSymbol) ==
  applyFormatting(m, formatWithScale(m, DecAbs(m.amount), maxDecimals), withSymbol)

-----------------------------------------------------------------------------
(* Money.allocate *)

\* ratios are non-negative whole numbers; total is their sum
\* base units in one step of the instance's calculation precision
CalcUnit(m) == Pow10(FracDigits - m.decimals)

\* new Decimal(currencyConfig.minorUnits), as a whole number
MinorUnits(m) == DigitsVal(m.currencyConfig.minorUnits)

\* the floor of a share rounded half up instead of down
shareFloor_HalfUp(m, ratio, total) ==
  IF total = 0 THEN NaN
  ELSE Fin(m.amount.neg,
           ((2 * m.amount.mag * ratio + total * CalcUnit(m)) \div (2 * total * CalcUnit(m)))
             * CalcUnit(m))

\* share.toDecimalPlaces(decimals, ROUND_DOWN) of the exact share
\* amount * ratio / total, which is NaN when total is 0
shareFloor(m, ratio, total) ==
  IF total = 0 THEN NaN
  ELSE Fin(m.amount.neg,
           ((m.amount.mag * ratio) \div (total * CalcUnit(m))) * CalcUnit(m))

\* ratios.map(...) for a given total
RECURSIVE shareFloorsOf(_, _, _)
shareFloorsOf(m, ratios, total) ==
  IF ratios = <<>> THEN <<>>
  ELSE <<shareFloor(m, Head(ratios), total)>> \o shareFloorsOf(m, Tail(ratios), total)

shareFloors(m, ratios) == shareFloorsOf(m, ratios, SumSeq(ratios))

\* shareFloors.reduce((sum, share) => sum.plus(share), new Decimal(0)), in
\* base units
RECURSIVE sumOfFloors(_)
sumOfFloors(floors) ==
  IF floors = <<>> THEN 0 ELSE ToInt(Head(floors)) + sumOfFloors(Tail(floors))

\* remainder = amount - sum of the floors, in base units (total > 0)
remainder(m, floors) == ToInt(m.amount) - sumOfFloors(floors)

\* remainderInMinorUnits = remainder * minorUnits, a number that need not be
\* whole or positive: held as Scale times its value
remainderInMinorUnits(m, floors) == remainder(m, floors) * MinorUnits(m)

\* mod = (exact share - floor) * total: amount * ratio - floor * total
shareMod(m, ratios, floors, i) ==
  ToInt(m.amount) * ratios[i] - ToInt(floors[i]) * SumSeq(ratios)

\* Array.sort((a, b) => b.mod - a.mod), a stable sort, by insertion: index i
\* goes behind every index placed before it whose mod is not smaller
RECURSIVE insertBySize(_, _, _)
insertBySize(order, mods, i) ==
  IF order = <<>> THEN <<i>>
  ELSE IF mods[Head(order)] >= mods[i]
       THEN <<Head(order)>> \o insertBySize(Tail(order), mods, i)
       ELSE <<i>> \o order

RECURSIVE sortBySize(_, _)
sortBySize(mods, n) ==
  IF n = 0 THEN <<>> ELSE insertBySize(sortBySize(mods, n - 1), mods, n)

\* the mods of the first n shares
RECURSIVE shareMods(_, _, _, _)
shareMods(m, ratios, floors, n) ==
  IF n = 0 THEN <<>>
  ELSE Append(shareMods(m, ratios, floors, n - 1), shareMod(m, ratios, floors, n))

\* sharesBySize, as the sequence of the shares' indices
sharesBySize(m, ratios, floors) ==
  sortBySize(shareMods(m, ratios, floors, Len(ratios)), Len(ratios))

\* the Money of one minor unit, 1 / minorUnits
minorUnitMoney(map, m) ==
  NewMoney(map, StrValue(DecToString(Fin(FALSE, Scale \div MinorUnits(m)))),
           m.currencyConfig.code, OwnOptions(m))

\* the for loop from the value i of its counter on, while i is below
\* remainderInMinorUnits; reading sharesBySize[i] past the end of the array
\* raises a TypeError
RECURSIVE distribute(_, _, _, _, _, _)
distribute(map, order, unit, count, result, i) ==
  IF ~(i * Scale < count) THEN Returned(result)
  ELSE IF i + 1 > Len(order) THEN Failed("TypeError")
  ELSE IF unit.error # "none" THEN Failed(unit.error)
  ELSE LET targetIndex == order[i + 1]
           sum         == add(map, result[targetIndex], unit.result[1])
       IN  IF sum.error # "none" THEN Failed(sum.error)
           ELSE distribute(map, order, unit, count,
                           [result EXCEPT ![targetIndex] = sum.result[1]], i + 1)

\* new Money(share.toString(), code, options) of one floor
floorMoney(map, m, floor) ==
  NewMoney(map, StrValue(DecToString(floor)), m.currencyConfig.code, OwnOptions(m))

\* shareFloors.map(share => new Money(...)), every construction succeeding
RECURSIVE floorMonies(_, _, _)
floorMonies(map, m, floors) ==
  IF floors = <<>> THEN <<>>
  ELSE <<floorMoney(map, m, Head(floors)).result[1]>> \o floorMonies(map, m, Tail(floors))

allocate(map, m, ratios) ==
  IF ratios = <<>> THEN Failed("EmptyRatios")
  ELSE LET floors == shareFloors(m, ratios)
           made   == floorMoney(map, m, floors[1])
       IN  IF made.error # "none" THEN Failed(made.error)
           ELSE distribute(map, sharesBySize(m, ratios, floors), minorUnitMoney(map, m),
                           remainderInMinorUnits(m, floors),
                           floorMonies(map, m, floors), 0)

-----------------------------------------------------------------------------
(* State *)

\* the record of the last call: what was called on what, and its outcome
NoCall ==
  [op |-> "none", recv |-> <<>>, other |-> <<>>, number |-> <<>>, ratios |-> <<>>,
   value |-> <<>>, code |-> "", configs |-> <<>>, given |-> FALSE, withSymbol |-> FALSE,
   error |-> "none", result |-> <<>>]

Called(op, recv, out) ==
  [NoCall EXCEPT !.op = op, !.recv = recv, !.error = out.error, !.result = out.result]

\* the amounts the model keeps are within MaxWide and MaxCents
Kept(out) ==
  \A i \in 1..Len(out.result) :
    out.result[i].amount.k = "fin" =>
      /\ out.result[i].amount.mag <= MaxCents * (Scale \div 100)
      /\ out.result[i].amount.hi <= MaxWide

\* the places a caller keeps live instances in
Places == {1}

\* a call that writes the value it returns over its receiver
Keep_InPlace(out, k, dst) ==
  IF out.error # "none" THEN monies
  ELSE [monies EXCEPT ![1] = out.result[k]]

\* the live instances after a call returned `out`, the caller keeping its
\* k-th value in place dst
Keep(out, k, dst) ==
  IF out.error # "none" THEN monies
  ELSE IF dst > Len(monies) THEN Append(monies, out.result[k])
  ELSE [monies EXCEPT ![dst] = out.result[k]]

Live == 1..Len(monies)

\* the class is loaded: the singleton exists and the accessors are resolved
Loaded == instance /\ Len(accessors) = Len(AccessorCodes)

Init ==
  /\ instance = TRUE
  /\ accessors = LoadedAccessors
  /\ currencies = MapOfList(DEFAULT_CURRENCIES)
  /\ monies = <<>>
  /\ last = NoCall

-----------------------------------------------------------------------------
(* The registry's calls *)

Register(list) ==
  /\ currencies' = registerCurrency(currencies, list).map
  /\ last' = [NoCall EXCEPT !.op = "register", !.configs = list,
                            !.error = registerCurrency(currencies, list).error,
                            !.result = IF registerCurrency(currencies, list).error = "none"
                                       THEN list ELSE <<>>]
  /\ UNCHANGED <<monies, statics>>

\* unregister reaching the static accessors of the codes it removes
Unregister_AndAccessors(list) ==
  /\ currencies' = unregisterCurrency(currencies, list)
  /\ last' = [NoCall EXCEPT !.op = "unregister", !.configs = list]
  /\ accessors' = [i \in DOMAIN accessors |->
                     getCurrency(TRUE, unregisterCurrency(currencies, list), AccessorCodes[i])]
  /\ UNCHANGED <<monies, instance>>

Unregister(list) ==
  /\ currencies' = unregisterCurrency(currencies, list)
  /\ last' = [NoCall EXCEPT !.op = "unregister", !.configs = list]
  /\ UNCHANGED <<monies, statics>>

Initialize(list, given) ==
  /\ currencies' = initializeCurrencies(list, given).map
  /\ last' = [NoCall EXCEPT !.op = "initialize", !.given = given,
                            !.configs = IF given THEN list ELSE <<>>,
                            !.error = initializeCurrencies(list, given).error]
  /\ UNCHANGED <<monies, statics>>

-----------------------------------------------------------------------------
(* Money's calls *)

Construct(value, code, options, dst) ==
  LET out == NewMoney(currencies, value, code, options)
  IN  /\ Kept(out)
      /\ monies' = Keep(out, 1, dst)
      /\ last' = [Called("construct", <<>>, out) EXCEPT !.value = <<value>>, !.code = code]
      /\ UNCHANGED <<currencies, statics>>

Zero(code, options, dst) ==
  LET out == zero(currencies, code, options)
  IN  /\ monies' = Keep(out, 1, dst)
      /\ last' = [Called("zero", <<>>, out) EXCEPT !.value = <<StrValue(<<"0">>)>>,
                                                    !.code = code]
      /\ UNCHANGED <<currencies, statics>>

From(value, code, options, dst) ==
  LET out == from(currencies, value, code, options)
  IN  /\ Kept(out)
      /\ monies' = Keep(out, 1, dst)
      /\ last' = [Called("from", <<>>, out) EXCEPT !.value = <<value>>, !.code = code]
      /\ UNCHANGED <<currencies, statics>>

\* a call m.op(other) that returns a Money
Binary(op, out, i, j, dst) ==
  /\ Kept(out)
  /\ monies' = Keep(out, 1, dst)
  /\ last' = [Called(op, <<monies[i]>>, out) EXCEPT !.other = <<monies[j]>>]
  /\ UNCHANGED <<currencies, statics>>

Add(i, j, dst) ==
  /\ PlusInModel(monies[i].amount, monies[j].amount)
  /\ Binary("add", add(currencies, monies[i], monies[j]), i, j, dst)

Subtract(i, j, dst) ==
  /\ PlusInModel(monies[i].amount, DecNegated(monies[j].amount))
  /\ Binary("subtract", subtract(currencies, monies[i], monies[j]), i, j, dst)

ConvertTo(i, j, dst) ==
  /\ \/ isNegative(monies[j]) \/ isZero(monies[j])
     \/ TimesExact(monies[i].amount, monies[j].amount)
  /\ Binary("convertTo", convertTo(currencies, monies[i], monies[j]), i, j, dst)

\* a call m.op(number) that returns a Money
Scalar(op, out, i, number, dst) ==
  /\ Kept(out)
  /\ monies' = Keep(out, 1, dst)
  /\ last' = [Called(op, <<monies[i]>>, out) EXCEPT !.number = <<number>>]
  /\ UNCHANGED <<currencies, statics>>

Multiply(i, factor, dst) ==
  /\ TimesExact(monies[i].amount, factor)
  /\ Scalar("multiply", multiply(currencies, monies[i], factor), i, factor, dst)

Divide(i, divisor, dst) ==
  /\ DividedByExact(monies[i].amount, divisor)
  /\ Scalar("divide", divide(currencies, monies[i], divisor), i, divisor, dst)

Round(i, decimals, given, dst) ==
  LET out == round(currencies, monies[i], decimals, given)
  IN  /\ monies' = Keep(out, 1, dst)
      /\ last' = [Called("round", <<monies[i]>>, out) EXCEPT
                    !.number = IF given THEN <<decimals>> ELSE <<>>]
      /\ UNCHANGED <<currencies, statics>>

\* allocate, the caller keeping the k-th share
Allocate(i, ratios, k, dst) ==
  LET out == allocate(currencies, monies[i], ratios)
  IN  /\ k \in 1..Len(ratios) \/ (k = 1 /\ ratios = <<>>)
      /\ monies' = Keep(out, k, dst)
      /\ last' = [Called("allocate", <<monies[i]>>, out) EXCEPT !.ratios = ratios]
      /\ UNCHANGED <<currencies, statics>>

\* a call m.op(other) that returns no Money
Comparison(op, out, i, j) ==
  /\ last' = [Called(op, <<monies[i]>>, out) EXCEPT !.other = <<monies[j]>>]
  /\ UNCHANGED <<currencies, monies, statics>>

Equals(i, j) == Comparison("equals", equals(monies[i], monies[j]), i, j)

GreaterThan(i, j) == Comparison("greaterThan", greaterThan(monies[i], monies[j]), i, j)

LessThan(i, j) == Comparison("lessThan", lessThan(monies[i], monies[j]), i, j)

GreaterThanOrEqual(i, j) ==
  Comparison("greaterThanOrEqual", greaterThanOrEqual(monies[i], monies[j]), i, j)

LessThanOrEqual(i, j) ==
  Comparison("lessThanOrEqual", lessThanOrEqual(monies[i], monies[j]), i, j)

Compare(i, j) == Comparison("compare", compare(monies[i], monies[j]), i, j)

\* a call m.op() that reads the instance and returns no Money
Reading(op, result, i) ==
  /\ monies[i].amount.hi = 0
  /\ last' = Called(op, <<monies[i]>>, Returned(<<result>>))
  /\ UNCHANGED <<currencies, monies, statics>>

IsZero(i) == Reading("isZero", isZero(monies[i]), i)

IsPositive(i) == Reading("isPositive", isPositive(monies[i]), i)

IsNegative(i) == Reading("isNegative", isNegative(monies[i]), i)

Value(i) == Reading("value", valueString(monies[i]), i)

FormattedValue(i) == Reading("formattedValue", formattedValue(monies[i]), i)

FormattedValueWithSymbol(i) ==
  Reading("formattedValueWithSymbol", formattedValueWithSymbol(monies[i]), i)

\* m.toString() (ToString names an operator of the TLC module)
CallToString(i) == Reading("toString", toString(monies[i]), i)

ToJSON(i) == Reading("toJSON", toJSON(monies[i]), i)

AbbreviatedValue(i, maxDecimals, withSymbol) ==
  /\ monies[i].amount.hi = 0
  /\ last' = [Called("abbreviatedValue", <<monies[i]>>,
                     Returned(<<abbreviatedValue(monies[i], maxDecimals, withSymbol)>>))
                EXCEPT !.number = <<maxDecimals>>, !.withSymbol = withSymbol]
  /\ UNCHANGED <<currencies, monies, statics>>

-----------------------------------------------------------------------------
(* Spec: the registry and the live instances under every call that makes a  *)
(* Money, from the state the module starts in                               *)

\* a whole number of hundredths as the string a caller writes
CentsString(n) ==
  (IF n < 0 THEN <<"-">> ELSE <<>>)
    \o DigitsOf(Abs(n) \div 100) \o <<".">> \o PadTo(DigitsOf(Abs(n) % 100), 2)

\* the values of the error-case tests, and the malformed strings "12.34.56",
\* ".", "" and "-"
InvalidValues ==
  {NumValue(NaN), NumValue(Inf(FALSE)), NumValue(Inf(TRUE)),
   StrValue(<<"a", "b", "c">>),
   StrValue(<<"1", "2", ".", "3", "4", ".", "5", "6">>),
   StrValue(<<".">>), StrValue(<<>>), StrValue(<<"-">>)}

ValidValues == {StrValue(CentsString(1)), StrValue(CentsString(-1))}

ValueInputs == ValidValues \cup {NumValue(NaN)}

CodeInputs == {"USD", "XXX"}

FactorInputs == {Fin(FALSE, 2 * Scale), Fin(FALSE, 0), NaN, Inf(FALSE)}

DivisorInputs == {Fin(TRUE, Scale), Fin(FALSE, 0), NaN, Inf(FALSE)}

RegisterInputs == {<<USD_CUSTOM>>}

UnregisterInputs == {<<USD_CONFIG>>}

InitializeInputs == {<<USD_CUSTOM>>}

SmallRatioLists == {<<>>, <<0>>, <<1>>, <<1, 1>>}

Next ==
  \/ \E list \in RegisterInputs : Register(list)
  \/ \E list \in UnregisterInputs : Unregister(list)
  \/ \E list \in InitializeInputs, given \in BOOLEAN : Initialize(list, given)
  \/ \E value \in ValueInputs, code \in CodeInputs, dst \in Places :
        Construct(value, code, NoOptions, dst)
  \/ \E i \in Live, j \in Live, dst \in Places : Add(i, j, dst)
  \/ \E i \in Live, j \in Live, dst \in Places : Subtract(i, j, dst)
  \/ \E i \in Live, j \in Live, dst \in Places : ConvertTo(i, j, dst)
  \/ \E i \in Live, factor \in FactorInputs, dst \in Places : Multiply(i, factor, dst)
  \/ \E i \in Live, divisor \in DivisorInputs, dst \in Places : Divide(i, divisor, dst)
  \/ \E i \in Live, given \in BOOLEAN, dst \in Places : Round(i, 0, given, dst)
  \/ \E i \in Live, ratios \in SmallRatioLists, k \in 1..2, dst \in Places :
        Allocate(i, ratios, k, dst)

Spec == Init /\ [][Next]_vars

\* the calls on an instance that return instances
DerivingOps == {"add", "subtract", "multiply", "divide", "round", "allocate"}

ProducingOps == DerivingOps \cup {"construct", "convertTo"}

\* C2: every add, subtract, multiply, divide, round and allocate on an
\* instance is independent of the registry calls made since the instance was
\* constructed: it does not fail for a missing currency, and what it returns
\* carries the configuration the instance was constructed with
C2_OperationsIgnoreLaterRegistryCalls ==
  last.op \in DerivingOps =>
    /\ last.error # "CurrencyNotFound"
    /\ \A i \in 1..Len(last.result) :
         last.result[i].currencyConfig = last.recv[1].currencyConfig

\* C10: every instance that is live or was returned by a construction, add,
\* subtract, multiply, divide, round, convertTo or allocate has a finite
\* amount; a call whose amount would be NaN or infinite returns nothing
C10_AmountsAreFinite ==
  /\ \A i \in Live : monies[i].amount.k = "fin"
  /\ last.op \in ProducingOps =>
       \A i \in 1..Len(last.result) : last.result[i].amount.k = "fin"

\* C10 witness: a multiplication of a non-zero instance by Infinity has failed
\* for an invalid amount
C10_Witness_MultiplyByInfinityFails ==
  /\ last.op = "multiply"
  /\ last.number = <<Inf(FALSE)>>
  /\ last.recv[1].amount.mag > 0
  /\ last.error = "InvalidAmount"
  /\ last.result = <<>>
  /\ Live # {}

-----------------------------------------------------------------------------
(* SpecConstruct: construction by the constructor, zero and from, of valid  *)
(* and invalid values, after any sequence of the registry's calls           *)

ConstructInputs == ValidValues \cup InvalidValues

ConstructCodes == {"USD", "EUR", "XXX"}

ConstructRegisterInputs == {<<USD_CUSTOM>>}

ConstructUnregisterInputs == {<<USD_CONFIG>>, <<EUR_CONFIG>>}

ConstructInitializeInputs == {<<EUR_CONFIG>>}

NextConstruct ==
  \/ \E list \in ConstructRegisterInputs : Register(list)
  \/ \E list \in ConstructUnregisterInputs : Unregister(list)
  \/ \E list \in ConstructInitializeInputs, given \in BOOLEAN : Initialize(list, given)
  \/ \E value \in ConstructInputs, code \in ConstructCodes, dst \in Places :
        Construct(value, code, NoOptions, dst)
  \/ \E code \in ConstructCodes, dst \in Places : Zero(code, NoOptions, dst)
  \/ \E value \in ConstructInputs, code \in ConstructCodes, dst \in Places :
        From(value, code, NoOptions, dst)

SpecConstruct == Init /\ [][NextConstruct]_vars

ConstructOps == {"construct", "zero", "from"}

\* the values that parse as a finite decimal among those constructed
FiniteValues == ValidValues \cup {StrValue(<<"0">>)}

\* C8: after any calls of register, unregister and initialize, constructing
\* an instance of a valid amount by the constructor, zero or from returns an
\* instance exactly when the code is in the registry, and fails for a
\* currency that is not found, returning nothing, when it is not
C8_ConstructionNeedsRegisteredCode ==
  (last.op \in ConstructOps /\ last.value[1] \in FiniteValues) =>
    /\ last.error = "none" <=> last.code \in DOMAIN currencies
    /\ last.error = "none" => Len(last.result) = 1
    /\ last.error # "none" => last.error = "CurrencyNotFound" /\ last.result = <<>>

\* C8 witness: after the US dollar was unregistered, a construction of a valid
\* amount in it has failed
C8_Witness_UnregisteredCodeRejected ==
  /\ last.op \in ConstructOps
  /\ last.value[1] \in FiniteValues
  /\ last.code = "USD"
  /\ "USD" \notin DOMAIN currencies
  /\ last.error = "CurrencyNotFound"

\* C9: constructing an instance of a value that does not parse as a finite
\* decimal fails for an invalid amount and returns nothing, whatever the code
C9_InvalidValuesRejected ==
  (last.op \in ConstructOps /\ last.value[1] \in InvalidValues) =>
    last.error = "InvalidAmount" /\ last.result = <<>>

\* C9 witness: the malformed string "12.34.56" was rejected for a code that
\* is not registered
C9_Witness_MalformedStringUnknownCode ==
  /\ last.op \in ConstructOps
  /\ last.value = <<StrValue(<<"1", "2", ".", "3", "4", ".", "5", "6">>)>>
  /\ last.code \notin DOMAIN currencies
  /\ last.error = "InvalidAmount"

-----------------------------------------------------------------------------
(* SpecBinary: the calls that take a second instance, from every pair of    *)
(* instances of two currencies                                              *)

BinaryCodes == {"USD", "EUR"}

BinaryMonies ==
  {NewMoney(MapOfList(DEFAULT_CURRENCIES), StrValue(CentsString(n)), code,
            NoOptions).result[1] : n \in -MaxCents..MaxCents, code \in BinaryCodes}

BinaryPlaces == {1, 2}

InitBinary ==
  /\ instance = TRUE
  /\ accessors = LoadedAccessors
  /\ currencies = MapOfList(DEFAULT_CURRENCIES)
  /\ monies \in {<<a, b>> : a \in BinaryMonies, b \in BinaryMonies}
  /\ last = NoCall

NextBinary ==
  \/ \E i \in Live, j \in Live, dst \in BinaryPlaces : Add(i, j, dst)
  \/ \E i \in Live, j \in Live, dst \in BinaryPlaces : Subtract(i, j, dst)
  \/ \E i \in Live, j \in Live : Equals(i, j)
  \/ \E i \in Live, j \in Live : GreaterThan(i, j)
  \/ \E i \in Live, j \in Live : LessThan(i, j)
  \/ \E i \in Live, j \in Live : GreaterThanOrEqual(i, j)
  \/ \E i \in Live, j \in Live : LessThanOrEqual(i, j)
  \/ \E i \in Live, j \in Live : Compare(i, j)

SpecBinary == InitBinary /\ [][NextBinary]_vars

BinaryOps ==
  {"add", "subtract", "equals", "greaterThan", "lessThan", "greaterThanOrEqual",
   "lessThanOrEqual", "compare"}

\* C3: add, subtract, equals, greaterThan, lessThan, greaterThanOrEqual,
\* lessThanOrEqual and compare of two instances whose currency codes differ
\* each fail for a currency mismatch and return nothing
C3_DifferentCurrenciesRejected ==
  (/\ last.op \in BinaryOps
   /\ last.recv[1].currencyConfig.code # last.other[1].currencyConfig.code) =>
    last.error = "CurrencyMismatch" /\ last.result = <<>>

\* C3 witness: a comparison of a US dollar amount with a euro amount has
\* failed for a currency mismatch
C3_Witness_CompareDollarsWithEuros ==
  /\ last.op = "compare"
  /\ last.recv[1].currencyConfig.code = "USD"
  /\ last.other[1].currencyConfig.code = "EUR"
  /\ last.error = "CurrencyMismatch"

-----------------------------------------------------------------------------
(* SpecAllocate: allocate, on every amount of up to MaxMills thousandths,   *)
(* of either sign, with and without a decimals option, over every list of   *)
(* up to MaxRatios ratios of up to MaxRatio. Within these bounds no share   *)
(* needs more than the 20 significant digits decimal.js keeps, and the      *)
(* exact arithmetic of shareFloor and shareMod is the arithmetic of the     *)
(* code.                                                                    *)

\* a whole number of thousandths as the string a caller writes
MillsString(n) ==
  (IF n < 0 THEN <<"-">> ELSE <<>>)
    \o DigitsOf(Abs(n) \div 1000) \o <<".">> \o PadTo(DigitsOf(Abs(n) % 1000), 3)

AllocateOptions == {NoOptions, [decimals |-> 0]}

AllocateMonies ==
  {NewMoney(MapOfList(DEFAULT_CURRENCIES), StrValue(MillsString(n)), "USD",
            options).result[1] : n \in -MaxMills..MaxMills, options \in AllocateOptions}

RatioLists == SeqsUpTo(0..MaxRatio, MaxRatios)

InitAllocate ==
  /\ instance = TRUE
  /\ accessors = LoadedAccessors
  /\ currencies = MapOfList(DEFAULT_CURRENCIES)
  /\ monies \in {<<m>> : m \in AllocateMonies}
  /\ last = NoCall

NextAllocate == \E ratios \in RatioLists : Allocate(1, ratios, 1, 1)

SpecAllocate == InitAllocate /\ [][NextAllocate]_vars

\* the last call was an allocate over a non-empty list that returned
AllocateReturned ==
  last.op = "allocate" /\ last.ratios # <<>> /\ last.error = "none"

\* the amount allocated and the i-th share returned, in base units
AllocatedAmount == ToInt(last.recv[1].amount)

Share(i) == ToInt(last.result[i].amount)

SumOfShares == SumSeq([i \in 1..Len(last.result) |-> Share(i)])

\* one minor unit of the currency, in base units
MinorUnit == Scale \div MinorUnits(last.recv[1])

\* the exact share amount * ratio / total truncated toward zero at the
\* calculation precision of the instance, in base units
TruncatedShare(i) ==
  LET step == CalcUnit(last.recv[1])
      size == ((Abs(AllocatedAmount) * last.ratios[i]) \div (SumSeq(last.ratios) * step)) * step
  IN  IF AllocatedAmount < 0 THEN -size ELSE size

\* (exact share - truncated share) * total
FractionalRemainder(i) ==
  AllocatedAmount * last.ratios[i] - TruncatedShare(i) * SumSeq(last.ratios)

\* C1: the shares allocate returns sum exactly to the amount allocated, for
\* every amount, negative ones and ones of more fractional digits than the
\* calculation precision included, and every non-empty list of ratios
C1_SharesSumToAmount ==
  AllocateReturned => SumOfShares = AllocatedAmount

\* C4: each share is its exact share truncated at the calculation precision,
\* or that plus exactly one minor unit, and so differs from its exact share
\* by less than one minor unit
C4_ShareWithinOneMinorUnit ==
  AllocateReturned =>
    \A i \in 1..Len(last.result) :
      /\ Share(i) \in {TruncatedShare(i), TruncatedShare(i) + MinorUnit}
      /\ Abs(Share(i) * SumSeq(last.ratios) - AllocatedAmount * last.ratios[i])
           < MinorUnit * SumSeq(last.ratios)

\* C5: allocate fails for empty ratios when the list is empty, and for every
\* non-empty list, one of zeros and an instance with a decimals option
\* included, returns one share per ratio
C5_AllocateFailsOnlyOnEmptyRatios ==
  last.op = "allocate" =>
    IF last.ratios = <<>> THEN last.error = "EmptyRatios"
    ELSE last.error = "none" /\ Len(last.result) = Len(last.ratios)

\* C6: over a list of positive sum, every share whose ratio is zero is zero
C6_ZeroRatioSharesAreZero ==
  (AllocateReturned /\ SumSeq(last.ratios) > 0) =>
    \A i \in 1..Len(last.result) : last.ratios[i] = 0 => Share(i) = 0

\* the shares that got an extra minor unit
ExtraShares == {i \in 1..Len(last.result) : Share(i) # TruncatedShare(i)}

\* share i ranks before share j: a larger fractional remainder, or an equal
\* one and a lower index
RanksBefore(i, j) ==
  \/ FractionalRemainder(i) > FractionalRemainder(j)
  \/ FractionalRemainder(i) = FractionalRemainder(j) /\ i < j

\* C7: the shares that get an extra minor unit are exactly the N that rank
\* first by fractional remainder, equal remainders by lowest index, N being
\* the amount less the truncated shares, counted in minor units
C7_ExtraUnitsGoToTopRanked ==
  AllocateReturned =>
    /\ Cardinality(ExtraShares) * MinorUnit
         = AllocatedAmount - SumSeq([i \in 1..Len(last.result) |-> TruncatedShare(i)])
    /\ \A i \in ExtraShares, j \in (1..Len(last.result)) \ ExtraShares : RanksBefore(i, j)

-----------------------------------------------------------------------------
(* SpecArithmetic: add, subtract, divide and convertTo from every pair of   *)
(* instances of two currencies, with and without options of their own,      *)
(* among them an amount of more than Precision significant digits, before   *)
(* and after the US dollar is unregistered                                  *)

\* 100000000000000000.001: Precision + 1 significant digits
WideString == <<"1">> \o PadTo(<<>>, Precision - FracDigits) \o <<".", "0", "0", "1">>

ArithmeticValues ==
  {<<"0">>, <<"-", "0">>, <<"0", ".", "0", "1">>, <<"-", "0", ".", "0", "1">>, <<"1">>,
   WideString}

\* options that differ from every default configuration
OWN_OPTIONS ==
  [symbol |-> "S", decimals |-> 3, displayDecimals |-> 1, roundingMode |-> "ROUND_UP"]

ArithmeticMonies ==
  {NewMoney(MapOfList(DEFAULT_CURRENCIES), StrValue(chars), "USD", options).result[1] :
     chars \in ArithmeticValues, options \in {NoOptions, OWN_OPTIONS}}
  \cup {NewMoney(MapOfList(DEFAULT_CURRENCIES), StrValue(chars), "EUR", NoOptions).result[1] :
          chars \in ArithmeticValues}

ArithmeticDivisors == {Fin(FALSE, Scale), Fin(TRUE, 2 * Scale), Fin(FALSE, 0), Fin(TRUE, 0)}

InitArithmetic ==
  /\ instance = TRUE
  /\ accessors = LoadedAccessors
  /\ currencies = MapOfList(DEFAULT_CURRENCIES)
  /\ monies \in {<<a, b>> : a \in ArithmeticMonies, b \in ArithmeticMonies}
  /\ last = NoCall

NextArithmetic ==
  \/ Add(1, 2, 2)
  \/ Subtract(1, 2, 2)
  \/ ConvertTo(1, 2, 2)
  \/ \E divisor \in ArithmeticDivisors : Divide(1, divisor, 2)
  \/ Unregister(<<USD_CONFIG>>)

SpecArithmetic == InitArithmetic /\ [][NextArithmetic]_vars

\* the two operands of the last call have the same currency code
SameCode == last.recv[1].currencyConfig.code = last.other[1].currencyConfig.code

\* r is the sum of a and b, to the last digit
IsSum(r, a, b) ==
  /\ r.k = "fin"
  /\ ToHi(r) = ToHi(a) + ToHi(b)
  /\ ToInt(r) = ToInt(a) + ToInt(b)

\* r is a less b, to the last digit
IsDifference(r, a, b) ==
  /\ r.k = "fin"
  /\ ToHi(r) = ToHi(a) - ToHi(b)
  /\ ToInt(r) = ToInt(a) - ToInt(b)

\* r is the product of a and b, to the last digit
IsProduct(r, a, b) ==
  /\ r.k = "fin"
  /\ ToHi(r) * Scale = ToHi(a) * ToInt(b) + ToHi(b) * ToInt(a)
  /\ ToInt(r) * Scale = ToInt(a) * ToInt(b)

\* the fields of r that an instance's own options set are those of m
CarriesOptionsOf(r, m) ==
  /\ r.symbol = m.symbol
  /\ r.decimals = m.decimals
  /\ r.displayDecimals = m.displayDecimals
  /\ r.roundingMode = m.roundingMode

\* C17: for a and b of the same currency, a.add(b) has the amount a + b and
\* a.subtract(b) the amount a - b, exactly, whatever the number of significant
\* digits, and the result carries a's symbol, decimals, displayDecimals and
\* roundingMode
C17_AddSubtractExact ==
  (last.op \in {"add", "subtract"} /\ SameCode) =>
    /\ last.error = "none"
    /\ Len(last.result) = 1
    /\ last.op = "add" =>
         IsSum(last.result[1].amount, last.recv[1].amount, last.other[1].amount)
    /\ last.op = "subtract" =>
         IsDifference(last.result[1].amount, last.recv[1].amount, last.other[1].amount)
    /\ CarriesOptionsOf(last.result[1], last.recv[1])

\* C18: divide fails with DivisionByZero and returns nothing when the divisor
\* is zero, negative zero included, whatever the amount; for every other
\* finite divisor it returns a Money whose amount is the amount over the
\* divisor
C18_DivideByZeroOnly ==
  last.op = "divide" =>
    LET divisor == last.number[1]
    IN  /\ (divisor.k = "fin" /\ divisor.mag = 0) =>
             last.error = "DivisionByZero" /\ last.result = <<>>
        /\ (divisor.k = "fin" /\ divisor.mag # 0) =>
             /\ last.error = "none"
             /\ Len(last.result) = 1
             /\ last.result[1].amount.k = "fin"
             /\ ToInt(last.result[1].amount) * ToInt(divisor)
                  = ToInt(last.recv[1].amount) * Scale

\* C19: convertTo fails with InvalidExchangeRate and returns nothing whenever
\* the rate is zero, negative zero included, or negative, whatever the source
\* amount and the two currencies
C19_NonPositiveRateRejected ==
  (/\ last.op = "convertTo"
   /\ last.other[1].amount.neg \/ (last.other[1].amount.hi = 0 /\ last.other[1].amount.mag = 0)) =>
    last.error = "InvalidExchangeRate" /\ last.result = <<>>

\* a US dollar amount, once the US dollar is unregistered, was converted at a
\* rate of negative zero euros and at a rate of minus one euro cent
C19_Witness_NegativeZeroRate ==
  /\ last.op = "convertTo"
  /\ last.recv[1].currencyConfig.code = "USD"
  /\ ~HasCurrency(currencies, "USD")
  /\ last.other[1].currencyConfig.code = "EUR"
  /\ last.other[1].amount = Fin(TRUE, 0)
  /\ last.error = "InvalidExchangeRate"

\* C20: convertTo with a strictly positive rate returns a Money with the
\* rate's currency code, the amount source x rate exactly, and the rate's
\* decimals, displayDecimals and roundingMode
C20_ConvertToExact ==
  (/\ last.op = "convertTo"
   /\ ~last.other[1].amount.neg
   /\ last.other[1].amount.hi > 0 \/ last.other[1].amount.mag > 0) =>
    /\ last.error = "none"
    /\ Len(last.result) = 1
    /\ last.result[1].currencyConfig.code = last.other[1].currencyConfig.code
    /\ IsProduct(last.result[1].amount, last.recv[1].amount, last.other[1].amount)
    /\ last.result[1].decimals = last.other[1].decimals
    /\ last.result[1].displayDecimals = last.other[1].displayDecimals
    /\ last.result[1].roundingMode = last.other[1].roundingMode

-----------------------------------------------------------------------------
(* SpecRead: the calls that read an instance, and round, on one instance    *)
(* at a time next to the zero of its currency: amounts of either sign and   *)
(* both zeros, in a prefix and a suffix currency, with the default options, *)
(* with display options and under each of the nine rounding modes           *)

ReadValues ==
  {<<"0">>, <<"-", "0">>, <<"-", "0", ".", "0", "0">>,
   <<"0", ".", "0", "0", "5">>, <<"-", "0", ".", "0", "0", "5">>,
   <<"0", ".", "0", "1", "5">>, <<"0", ".", "1", "2", "5">>,
   <<"1", "0", "0">>, <<"-", "1", "0", "0">>,
   <<"1", "0", "0", ".", "5", "5", "5">>, <<"-", "1", "0", "0", ".", "5", "5", "5">>,
   <<"1", "2", "3", "4", ".", "5">>, <<"-", "1", "2", "3", "4", ".", "5">>,
   <<"1", "2", "5", "0">>}

\* the options of the formatting test: one calculation decimal, none shown
DISPLAY_OPTIONS == [displayDecimals |-> 0, decimals |-> 1]

ReadOptions ==
  {NoOptions, DISPLAY_OPTIONS} \cup {[roundingMode |-> rm] : rm \in RoundingModes}

\* the registry once the suffix currency of the tests is registered
ReadRegistry == registerCurrency(MapOfList(DEFAULT_CURRENCIES), <<TST_CONFIG>>).map

ReadMonies ==
  {NewMoney(ReadRegistry, StrValue(chars), "USD", options).result[1] :
     chars \in ReadValues, options \in ReadOptions}
  \cup {NewMoney(ReadRegistry, StrValue(chars), "TST", NoOptions).result[1] :
          chars \in ReadValues}

AbbreviateDecimals == {0, 1}

RoundDecimals == {0, 1, 2}

InitRead ==
  /\ instance = TRUE
  /\ accessors = LoadedAccessors
  /\ currencies = ReadRegistry
  /\ monies \in {<<m, zero(ReadRegistry, m.currencyConfig.code, NoOptions).result[1]>> :
                   m \in ReadMonies}
  /\ last = NoCall

NextRead ==
  \/ IsZero(1)
  \/ IsPositive(1)
  \/ IsNegative(1)
  \/ Value(1)
  \/ FormattedValue(1)
  \/ FormattedValueWithSymbol(1)
  \/ CallToString(1)
  \/ ToJSON(1)
  \/ \E maxDecimals \in AbbreviateDecimals, withSymbol \in BOOLEAN :
       AbbreviatedValue(1, maxDecimals, withSymbol)
  \/ Equals(1, 2)
  \/ Compare(1, 2)
  \/ \E decimals \in RoundDecimals, given \in BOOLEAN : Round(1, decimals, given, 1)

SpecRead == InitRead /\ [][NextRead]_vars

\* the amount of the receiver of the last call is numerically zero
ReceiverIsZero ==
  /\ last.recv[1].amount.k = "fin"
  /\ last.recv[1].amount.hi = 0
  /\ last.recv[1].amount.mag = 0

\* C21: for every Money whose amount is numerically zero, isPositive() is true
\* and isNegative() is false
C21_ZeroIsPositive ==
  /\ (last.op = "isPositive" /\ ReceiverIsZero) => last.result = <<TRUE>>
  /\ (last.op = "isNegative" /\ ReceiverIsZero) => last.result = <<FALSE>>

\* the receiver of the last call was built from "-0" or "-0.00"
ReceiverIsNegativeZero == last.recv # <<>> /\ last.recv[1].amount = Fin(TRUE, 0)

\* the receiver of the last call is a US dollar amount with the options of
\* the configuration
ReceiverIsPlainDollar ==
  /\ last.recv[1].currencyConfig = USD_CONFIG
  /\ last.recv[1].symbol = "$"
  /\ last.recv[1].displayDecimals = 2

\* C22: a Money built from "-0" or "-0.00" is zero for isZero and equal to
\* Money.zero of its currency under equals and compare, while formattedValue
\* and formattedValueWithSymbol render it with a leading minus: "-0.00" and
\* "-$0.00" for a US dollar amount
C22_NegativeZeroKeepsSign ==
  ReceiverIsNegativeZero =>
    /\ last.op = "isZero" => last.result = <<TRUE>>
    /\ last.op = "equals" => last.result = <<TRUE>>
    /\ last.op = "compare" =>
         last.result = <<[equal |-> TRUE, greaterThan |-> FALSE, lessThan |-> FALSE]>>
    /\ last.op \in {"formattedValue", "formattedValueWithSymbol"} =>
         Head(last.result[1]) = "-"
    /\ (last.op = "formattedValue" /\ ReceiverIsPlainDollar) =>
         last.result = <<<<"-", "0", ".", "0", "0">>>>
    /\ (last.op = "formattedValueWithSymbol" /\ ReceiverIsPlainDollar) =>
         last.result = <<<<"-", "$", "0", ".", "0", "0">>>>

\* a negative zero of US dollars was formatted with its symbol
C22_Witness_NegativeZeroDollars ==
  /\ last.op = "formattedValueWithSymbol"
  /\ ReceiverIsNegativeZero
  /\ ReceiverIsPlainDollar
  /\ last.result = <<<<"-", "$", "0", ".", "0", "0">>>>

\* the multiple of `unit` that rounding the magnitude a of an amount of sign
\* neg to multiples of `unit` chooses under rounding mode rm, among the
\* multiple `lower` at or below a and the next one
RoundedMagnitude(rm, neg, a, unit) ==
  LET lower == (a \div unit) * unit
      upper == lower + unit
      even  == IF (lower \div unit) % 2 = 0 THEN lower ELSE upper
      tie   == CASE rm = "ROUND_HALF_UP"    -> upper
                 [] rm = "ROUND_HALF_DOWN"  -> lower
                 [] rm = "ROUND_HALF_EVEN"  -> even
                 [] rm = "ROUND_HALF_CEIL"  -> IF neg THEN lower ELSE upper
                 [] rm = "ROUND_HALF_FLOOR" -> IF neg THEN upper ELSE lower
                 [] OTHER                   -> lower
  IN  IF a = lower THEN a
      ELSE CASE rm = "ROUND_UP"    -> upper
             [] rm = "ROUND_DOWN"  -> lower
             [] rm = "ROUND_CEIL"  -> IF neg THEN lower ELSE upper
             [] rm = "ROUND_FLOOR" -> IF neg THEN upper ELSE lower
             [] OTHER -> IF upper - a < a - lower THEN upper
                         ELSE IF upper - a > a - lower THEN lower
                         ELSE tie

\* the amount the strings "100.555", "100.55" and "100.56" write
Amount100555 == DecimalOfString(<<"1", "0", "0", ".", "5", "5", "5">>)

Amount10055 == DecimalOfString(<<"1", "0", "0", ".", "5", "5">>)

Amount10056 == DecimalOfString(<<"1", "0", "0", ".", "5", "6">>)

DefaultModeMonies ==
  {NewMoney(ReadRegistry, StrValue(chars), code, options).result[1] :
     chars \in ReadValues, code \in {"USD", "TST"}, options \in {NoOptions, DISPLAY_OPTIONS}}

\* m with its amount rounded half to even to dp decimals, and a rounding mode
\* that leaves it there
RoundedHalfEven(m, dp) ==
  [m EXCEPT !.amount.mag = RoundedMagnitude("ROUND_HALF_EVEN", m.amount.neg, m.amount.mag,
                                            Pow10(FracDigits - dp)),
            !.roundingMode = "ROUND_DOWN"]

Amount12345 == DecimalOfString(<<"1", "2", "3", "4", ".", "5">>)

C25_JSONHasSevenFields ==
  last.op = "toJSON" =>
    /\ DOMAIN last.result[1] = {"currency", "symbol", "decimals", "displayDecimals",
                                "value", "prettyValue", "negative"}
    /\ last.result[1].negative = last.recv[1].amount.neg

\* how many characters of `chars` are the character c
CountOf(chars, c) == Cardinality({i \in 1..Len(chars) : chars[i] = c})

\* C26: formattedValueWithSymbol and toString put the symbol directly before
\* the number for a prefix currency and directly after it for a suffix one,
\* and a negative amount has exactly one minus sign, before the whole string
\* and outside the symbol
C26_SymbolAndSign ==
  (last.op \in {"formattedValueWithSymbol", "toString"}) =>
    LET m      == last.recv[1]
        r      == last.result[1]
        signed == isNegative(m)
        body   == IF signed THEN Tail(r) ELSE r
    IN  /\ CountOf(r, "-") = IF signed THEN 1 ELSE 0
        /\ signed => r[1] = "-"
        /\ Len(body) >= 2
        /\ m.currencyConfig.symbolPosition = "prefix" =>
             /\ body[1] = m.symbol
             /\ IsDigit(body[2])
             /\ IsDigit(body[Len(body)])
             /\ CountOf(body, m.symbol) = 1
        /\ m.currencyConfig.symbolPosition = "suffix" =>
             /\ body[Len(body)] = m.symbol
             /\ IsDigit(body[Len(body) - 1])
             /\ IsDigit(body[1])
             /\ CountOf(body, m.symbol) = 1

\* a negative amount of a prefix currency, the minus before the symbol
C26_Witness_MinusBeforeSymbol ==
  /\ last.op = "formattedValueWithSymbol"
  /\ isNegative(last.recv[1])
  /\ ~isZero(last.recv[1])
  /\ last.recv[1].currencyConfig.symbolPosition = "prefix"
  /\ SubSeq(last.result[1], 1, 3) = <<"-", "$", "1">>

-----------------------------------------------------------------------------
(* Abbreviation of amounts around the thresholds of Money.SCALES.            *)

AbbreviateValues ==
  {<<"9", "9", "9">>,
   <<"9", "9", "9", ".", "9", "5">>,
   <<"9", "9", "9", ".", "9", "9">>,
   <<"1", "0", "0", "0">>,
   <<"1", "2", "3", "4">>,
   <<"-", "1", "2", "3", "4">>,
   <<"1", "2", "5", "0">>,
   <<"9", "9", "9", "9", "4", "9">>,
   <<"9", "9", "9", "9", "5", "0">>,
   <<"9", "9", "9", "9", "9", "9", ".", "9">>,
   <<"-", "9", "9", "9", "9", "9", "9", ".", "9">>,
   <<"9", "9", "9", "9", "9", "9", ".", "9", "5">>,
   <<"1", "0", "0", "0", "0", "0", "0">>,
   <<"1", "2", "3", "4", "5", "6", "7">>}

AbbreviateMonies ==
  {NewMoney(ReadRegistry, StrValue(chars), code, NoOptions).result[1] :
     chars \in AbbreviateValues, code \in {"USD", "TST"}}

InitAbbreviate ==
  /\ instance = TRUE
  /\ accessors = LoadedAccessors
  /\ currencies = ReadRegistry
  /\ monies \in {<<m>> : m \in AbbreviateMonies}
  /\ last = NoCall

NextAbbreviate ==
  \E maxDecimals \in AbbreviateDecimals, withSymbol \in BOOLEAN :
    AbbreviatedValue(1, maxDecimals, withSymbol)

SpecAbbreviate == InitAbbreviate /\ [][NextAbbreviate]_vars

\* the whole digits of the number an abbreviation prints: the string without
\* its minus sign and its suffix, up to the decimal point
PrintedWhole(chars) ==
  LET unsigned == IF chars[1] = "-" THEN Tail(chars) ELSE chars
      number   == SubSeq(unsigned, 1, Len(unsigned) - 1)
  IN  IntegerPart(number, DotAt(number))

\* C27: the number abbreviatedValue prints before a K, M or B suffix is at
\* least 1 and below 1000: 999,999.9 is never rendered as 1000K
C27_PrintedNumberBelowThousand ==
  (/\ last.op = "abbreviatedValue"
   /\ ~last.withSymbol
   /\ last.result[1][Len(last.result[1])] \in {"K", "M", "B"}) =>
    /\ Len(PrintedWhole(last.result[1])) \in 1..3
    /\ PrintedWhole(last.result[1])[1] # "0"

-----------------------------------------------------------------------------
(* Two instances, every operation of Money called on them, and the value a  *)
(* call returns kept in a place of its own.                                  *)

Operands == {1, 2}

Fresh == 3

FrameValues == {<<"0">>, <<"0", ".", "0", "1">>, <<"-", "0", ".", "0", "1">>}

FrameMonies ==
  {NewMoney(MapOfList(DEFAULT_CURRENCIES), StrValue(chars), "USD", NoOptions).result[1] :
     chars \in FrameValues}
  \cup {NewMoney(MapOfList(DEFAULT_CURRENCIES), StrValue(<<"0", ".", "0", "1">>), "EUR",
                  NoOptions).result[1]}

InitFrame ==
  /\ instance = TRUE
  /\ accessors = LoadedAccessors
  /\ currencies = MapOfList(DEFAULT_CURRENCIES)
  /\ monies \in {<<a, b>> : a \in FrameMonies, b \in FrameMonies}
  /\ last = NoCall

NextFrame ==
  \/ \E i \in Operands, j \in Operands : Add(i, j, Fresh)
  \/ \E i \in Operands, j \in Operands : Subtract(i, j, Fresh)
  \/ \E i \in Operands, j \in Operands : ConvertTo(i, j, Fresh)
  \/ \E i \in Operands, factor \in FactorInputs : Multiply(i, factor, Fresh)
  \/ \E i \in Operands, divisor \in DivisorInputs : Divide(i, divisor, Fresh)
  \/ \E i \in Operands, given \in BOOLEAN : Round(i, 0, given, Fresh)
  \/ \E i \in Operands, ratios \in SmallRatioLists, k \in 1..2 : Allocate(i, ratios, k, Fresh)
  \/ \E i \in Operands, j \in Operands : Equals(i, j)
  \/ \E i \in Operands, j \in Operands : GreaterThan(i, j)
  \/ \E i \in Operands, j \in Operands : LessThan(i, j)
  \/ \E i \in Operands, j \in Operands : GreaterThanOrEqual(i, j)
  \/ \E i \in Operands, j \in Operands : LessThanOrEqual(i, j)
  \/ \E i \in Operands, j \in Operands : Compare(i, j)
  \/ \E i \in Operands : IsZero(i)
  \/ \E i \in Operands : IsPositive(i)
  \/ \E i \in Operands : IsNegative(i)
  \/ \E i \in Operands : Value(i)
  \/ \E i \in Operands : FormattedValue(i)
  \/ \E i \in Operands : FormattedValueWithSymbol(i)
  \/ \E i \in Operands : CallToString(i)
  \/ \E i \in Operands : ToJSON(i)
  \/ \E i \in Operands, maxDecimals \in AbbreviateDecimals, withSymbol \in BOOLEAN :
        AbbreviatedValue(i, maxDecimals, withSymbol)

SpecFrame == InitFrame /\ [][NextFrame]_vars

-----------------------------------------------------------------------------
(* Allocation of whole numbers of cents by instances without options.        *)

ShareCents == 0..MaxMills

ShareMonies ==
  {NewMoney(MapOfList(DEFAULT_CURRENCIES), StrValue(CentsString(n)), "USD",
            NoOptions).result[1] : n \in ShareCents}

InitShares ==
  /\ instance = TRUE
  /\ accessors = LoadedAccessors
  /\ currencies = MapOfList(DEFAULT_CURRENCIES)
  /\ monies \in {<<m>> : m \in ShareMonies}
  /\ last = NoCall

\* one allocate call on the constructed instance
NextShares == \E ratios \in RatioLists : last.op = "none" /\ Allocate(1, ratios, 1, 1)

SpecShares == InitShares /\ [][NextShares]_vars

\* the last call was an allocate of a non-negative amount of whole minor
\* units, by an instance whose decimals are the currency's, over ratios of
\* positive sum
AllocateWithinContract ==
  /\ last.op = "allocate"
  /\ last.ratios # <<>>
  /\ SumSeq(last.ratios) > 0
  /\ last.recv[1].amount.k = "fin"
  /\ ~last.recv[1].amount.neg
  /\ last.recv[1].decimals = last.recv[1].currencyConfig.decimals
  /\ MinorUnits(last.recv[1]) = Pow10(last.recv[1].decimals)
  /\ AllocatedAmount % MinorUnit = 0

-----------------------------------------------------------------------------
(* The registry from the moment the class is loaded: the static accessors  *)
(* are resolved in their textual order, then callers register, unregister, *)
(* initialize and look codes up                                            *)

\* before the class body has run: Currency.instance is null
InitLoad ==
  /\ instance = FALSE
  /\ accessors = <<>>
  /\ currencies = EmptyMap
  /\ monies = <<>>
  /\ last = NoCall

\* Currency.getCurrency(code), which creates the singleton on its first call
GetCurrency(code) ==
  /\ instance' = TRUE
  /\ currencies' = getInstance(instance, currencies)
  /\ last' = [NoCall EXCEPT !.op = "getCurrency", !.code = code,
                            !.result = getCurrency(instance, currencies, code)]

\* the initializer of the next static accessor: static readonly X =
\* Currency.getCurrency(X_CONFIG.code)
ResolveAccessor ==
  /\ Len(accessors) < Len(AccessorCodes)
  /\ GetCurrency(AccessorCodes[Len(accessors) + 1])
  /\ accessors' = Append(accessors, last'.result)
  /\ UNCHANGED monies

\* a caller's Currency.getCurrency(code)
LookUp(code) ==
  /\ Loaded
  /\ GetCurrency(code)
  /\ UNCHANGED <<monies, accessors>>

RegistryRegisterInputs ==
  {<<TST_CONFIG>>, <<USD_CUSTOM>>, <<NO_SYMBOL_CONFIG>>, <<NO_CODE_CONFIG>>,
   <<NO_NAME_CONFIG>>, <<TST_CONFIG, NO_SYMBOL_CONFIG>>, <<TST_CONFIG, USD_CUSTOM>>}

RegistryUnregisterInputs ==
  {<<USD_CONFIG>>, <<TST_CONFIG>>, <<EUR_CONFIG>>, <<GBP_CONFIG, JPY_CONFIG>>,
   <<BTC_CONFIG, ETH_CONFIG>>}

RegistryInitializeInputs ==
  {<<>>, <<EUR_CONFIG>>, <<TST_CONFIG, USD_CUSTOM>>, <<NO_SYMBOL_CONFIG>>,
   <<USD_CONFIG, NO_NAME_CONFIG>>}

RegistryCodes == {"USD", "TST", "XXX"}

NextRegistry ==
  \/ ResolveAccessor
  \/ \E code \in RegistryCodes : LookUp(code)
  \/ \E list \in RegistryRegisterInputs : Loaded /\ Register(list)
  \/ \E list \in RegistryUnregisterInputs : Loaded /\ Unregister(list)
  \/ \E list \in RegistryInitializeInputs, given \in BOOLEAN :
       Loaded /\ Initialize(list, given)

SpecRegistry == InitLoad /\ [][NextRegistry]_vars

\* the codes two registries hold between them
CodesOf(before, after) == DOMAIN before \cup DOMAIN after

\* the entries under the codes outside `codes` are the same in both registries
SameOutside(before, after, codes) ==
  \A code \in CodesOf(before, after) \ codes :
    /\ code \in DOMAIN before
    /\ code \in DOMAIN after
    /\ before[code] = after[code]

\* C11: a register or initialize call that fails with InvalidCurrencyConfig
\* leaves the registry exactly as it was before the call
C11_FailedCallLeavesRegistry ==
  [][(last'.op \in {"register", "initialize"} /\ last'.error = "InvalidCurrencyConfig")
       => currencies' = currencies]_vars

C13_UnregisterRemovesCode ==
  [][(last'.op = "unregister" /\ Len(last'.configs) = 1) =>
       LET c == last'.configs[1]
       IN  /\ last'.error = "none"
           /\ getCurrency(instance', currencies', c.code) = <<>>
           /\ SameOutside(currencies, currencies', {c.code})
           /\ ~HasCurrency(currencies, c.code) => currencies' = currencies]_vars

\* the dollar has been unregistered, the euro is still there
C13_Witness_DollarRemoved ==
  /\ last.op = "unregister"
  /\ last.configs = <<USD_CONFIG>>
  /\ getCurrency(instance, currencies, "USD") = <<>>
  /\ getCurrency(instance, currencies, "EUR") = <<EUR_CONFIG>>

\* the codes of a list of configurations
RECURSIVE CodesIn(_)
CodesIn(list) == IF list = <<>> THEN {} ELSE {Head(list).code} \cup CodesIn(Tail(list))

\* every configuration of the list is valid and no two share a code
ValidList(list) ==
  /\ \A i \in 1..Len(list) :
       list[i].code # "" /\ list[i].symbol # "" /\ list[i].name # ""
  /\ \A i, j \in 1..Len(list) : list[i].code = list[j].code => i = j

\* the registry holds the configurations of the list and nothing else
HoldsExactly(map, list) ==
  /\ DOMAIN map = CodesIn(list)
  /\ \A i \in 1..Len(list) : map[list[i].code] = list[i]

\* C14: initialize() leaves the registry holding exactly the six default
\* configs, and initialize(list) with valid configs leaves exactly the configs
\* of the list, whatever the registry held before
C14_InitializeReplacesRegistry ==
  last.op = "initialize" =>
    /\ ~last.given =>
         /\ last.error = "none"
         /\ HoldsExactly(currencies, <<USD_CONFIG, EUR_CONFIG, GBP_CONFIG,
                                       JPY_CONFIG, BTC_CONFIG, ETH_CONFIG>>)
    /\ (last.given /\ ValidList(last.configs)) =>
         /\ last.error = "none"
         /\ HoldsExactly(currencies, last.configs)

\* initialize with a list of one: the euro is all the registry holds
C14_Witness_OnlyTheEuro ==
  /\ last.op = "initialize"
  /\ last.given
  /\ last.configs = <<EUR_CONFIG>>
  /\ DOMAIN currencies = {"EUR"}

\* C15: each entry of the registry is stored under its own code, and every
\* stored config has a non-empty code, symbol and name
C15_EntriesUnderOwnValidCode ==
  \A code \in DOMAIN currencies :
    /\ currencies[code].code = code
    /\ currencies[code].code # ""
    /\ currencies[code].symbol # ""
    /\ currencies[code].name # ""

\* a list with an invalid element was refused after its first element was
\* stored
C15_Witness_RefusedListPartlyStored ==
  /\ last.op = "register"
  /\ last.configs = <<TST_CONFIG, NO_SYMBOL_CONFIG>>
  /\ last.error = "InvalidCurrencyConfig"
  /\ HasCurrency(currencies, "TST")
  /\ ~HasCurrency(currencies, "BAD")

\* C16: while the class is loaded each accessor is resolved with the
\* singleton created and seeded: it is defined, and equals getCurrency of its
\* code at that moment
C16_AccessorsResolvedAfterSeeding ==
  [][Len(accessors') > Len(accessors) =>
       LET n == Len(accessors')
       IN  /\ instance'
           /\ HoldsExactly(currencies', <<USD_CONFIG, EUR_CONFIG, GBP_CONFIG,
                                          JPY_CONFIG, BTC_CONFIG, ETH_CONFIG>>)
           /\ accessors'[n] # <<>>
           /\ accessors'[n] = getCurrency(instance', currencies', AccessorCodes[n])
           /\ accessors'[n][1].code = AccessorCodes[n]]_vars

\* the class is loaded and the six accessors hold the six defaults
C16_Witness_AllAccessorsResolved ==
  /\ Loaded
  /\ last.op = "getCurrency"
  /\ last.code = "ETH"
  /\ accessors = <<<<USD_CONFIG>>, <<EUR_CONFIG>>, <<GBP_CONFIG>>,
                   <<JPY_CONFIG>>, <<BTC_CONFIG>>, <<ETH_CONFIG>>>>

\* the configurations the six accessors are declared with
AccessorConfigs ==
  <<USD_CONFIG, EUR_CONFIG, GBP_CONFIG, JPY_CONFIG, BTC_CONFIG, ETH_CONFIG>>

\* C30: the accessors USD, EUR, GBP, JPY, BTC and ETH hold, from the moment
\* the class is loaded and through every later register, unregister and
\* initialize call, the default configurations they were resolved to, whether
\* or not the registry still holds them
C30_AccessorsAreFixed ==
  Loaded => \A i \in 1..Len(AccessorCodes) : accessors[i] = <<AccessorConfigs[i]>>

\* the US dollar unregistered: the accessor still holds its default
\* configuration and getCurrency finds nothing
C30_Witness_AccessorOutlivesEntry ==
  /\ Loaded
  /\ last.op = "unregister"
  /\ accessors[1] = <<USD_CONFIG>>
  /\ getCurrency(instance, currencies, "USD") = <<>>

=============================================================================
